---------------------------- MODULE Spec2Model ----------------------------
(***************************************************************************)
(* Model of gnosis/eth/django/models.py: the Django model fields that      *)
(* convert Ethereum addresses, hashes, hex blobs and uint256 numbers       *)
(* between their Python form and their database form.                      *)
(*                                                                         *)
(* Python values are records [tag, neg, data]:                             *)
(*   None        tag "None"                                                *)
(*   str         tag "str",        data = the code points of the text      *)
(*   bytes       tag "bytes",      data = the bytes (0..255)               *)
(*   HexBytes    tag "HexBytes",   data = the bytes                        *)
(*   memoryview  tag "memoryview", data = the bytes                        *)
(*   int         tag "int",        neg = sign, data = decimal digits of    *)
(*                                 the magnitude, most significant first   *)
(*   Decimal     tag "Decimal",    as int (the field has 0 decimal places) *)
(* A call's outcome is a record [exc, code, val]: exc = "none" and the     *)
(* returned value, or the exception raised, its code (ValidationError) and *)
(* the value it carries in params.                                         *)
(***************************************************************************)
EXTENDS Integers, Sequences, FiniteSets, TLC

VARIABLES field, db, last

vars == <<field, db, last>>

-----------------------------------------------------------------------------
(* Python values *)

PyVal(t, d) == [tag |-> t, neg |-> FALSE, data |-> d]
None == PyVal("None", <<>>)
PyStr(s) == PyVal("str", s)
PyBytes(b) == PyVal("bytes", b)
PyHexBytes(b) == PyVal("HexBytes", b)
PyMemoryview(b) == PyVal("memoryview", b)
PyInt(n, d) == [tag |-> "int", neg |-> n, data |-> d]
PyDecimal(n, d) == [tag |-> "Decimal", neg |-> n, data |-> d]

Ok(v) == [exc |-> "none", code |-> "", val |-> v]
Raise(e, c, v) == [exc |-> e, code |-> c, val |-> v]

\* isinstance(value, bytes): HexBytes is a subclass of bytes
IsBytes(v) == v.tag \in {"bytes", "HexBytes"}

\* Python truthiness, as used by "if value:"
Truthy(v) ==
    CASE v.tag = "None" -> FALSE
      [] v.tag = "int" -> v.data # <<0>>
      [] OTHER -> Len(v.data) > 0

-----------------------------------------------------------------------------
(* Characters: a text is the sequence of its code points *)

Ord(c) ==
    CASE c = "0" -> 48 [] c = "1" -> 49 [] c = "2" -> 50 [] c = "3" -> 51
      [] c = "4" -> 52 [] c = "5" -> 53 [] c = "6" -> 54 [] c = "7" -> 55
      [] c = "8" -> 56 [] c = "9" -> 57
      [] c = "A" -> 65 [] c = "B" -> 66 [] c = "C" -> 67 [] c = "D" -> 68
      [] c = "E" -> 69 [] c = "F" -> 70 [] c = "X" -> 88
      [] c = "a" -> 97 [] c = "b" -> 98 [] c = "c" -> 99 [] c = "d" -> 100
      [] c = "e" -> 101 [] c = "f" -> 102 [] c = "x" -> 120 [] c = "z" -> 122
      [] c = "-" -> 45

Text(cs) == [i \in DOMAIN cs |-> Ord(cs[i])]

IsDigit(c) == c \in 48..57
IsLowerHexLetter(c) == c \in 97..102
IsUpperHexLetter(c) == c \in 65..70
IsHexChar(c) == IsDigit(c) \/ IsLowerHexLetter(c) \/ IsUpperHexLetter(c)

\* str.lower() and str.upper() on ASCII text
LowerChar(c) == IF c \in 65..90 THEN c + 32 ELSE c
UpperChar(c) == IF c \in 97..122 THEN c - 32 ELSE c
Lower(s) == [i \in DOMAIN s |-> LowerChar(s[i])]
Upper(s) == [i \in DOMAIN s |-> UpperChar(s[i])]

\* int(c, 16) of one hex digit, and the lowercase digit of a nibble
HexVal(c) ==
    IF IsDigit(c) THEN c - 48
    ELSE IF IsLowerHexLetter(c) THEN c - 87
    ELSE c - 55
HexDigit(n) == IF n < 10 THEN 48 + n ELSE 87 + n

Drop(s, n) == SubSeq(s, n + 1, Len(s))

\* str.startswith(("0x", "0X"))
Is0xPrefixed(s) == Len(s) >= 2 /\ s[1] = 48 /\ s[2] \in {120, 88}

\* bytes.hex(): two lowercase hex digits per byte, no prefix
Hexlify(b) ==
    [i \in 1..(2 * Len(b)) |->
        IF i % 2 = 1 THEN HexDigit(b[(i + 1) \div 2] \div 16)
        ELSE HexDigit(b[i \div 2] % 16)]

\* binascii.unhexlify on an even number of hex digits
Unhexlify(s) ==
    [i \in 1..(Len(s) \div 2) |-> 16 * HexVal(s[2 * i - 1]) + HexVal(s[2 * i])]


-----------------------------------------------------------------------------
(* hexbytes.HexBytes, imported at line 10 *)

\* hexbytes._utils.hexstr_to_bytes: strip a 0x/0X prefix, left-pad an odd
\* number of digits with "0", then binascii.unhexlify (binascii.Error, a
\* ValueError, on a character that is no hex digit)
hexstr_to_bytes(s) ==
    LET Decode(padded_hex) ==
            IF \A i \in DOMAIN padded_hex : IsHexChar(padded_hex[i])
            THEN Ok(PyHexBytes(Unhexlify(padded_hex)))
            ELSE Raise("binascii.Error", "", PyStr(s))
        Pad(non_prefixed_hex) ==
            Decode(IF Len(s) % 2 = 1 THEN <<48>> \o non_prefixed_hex
                   ELSE non_prefixed_hex)
    IN  Pad(IF Is0xPrefixed(s) THEN Drop(s, 2) ELSE s)

\* HexBytes(value) for bytes, HexBytes, memoryview and str
HexBytes(v) ==
    CASE v.tag \in {"bytes", "HexBytes", "memoryview"} -> Ok(PyHexBytes(v.data))
      [] v.tag = "str" -> hexstr_to_bytes(v.data)
      [] OTHER -> Raise("TypeError", "", v)

\* HexBytes.hex(): "0x" followed by the lowercase hex digits (line 145)
HexBytesHex(v) == PyStr(<<48, 120>> \o Hexlify(v.data))

\* bytes.hex() and memoryview.hex(): no prefix (lines 82, 147)
BytesHex(v) == PyStr(Hexlify(v.data))

-----------------------------------------------------------------------------
(* eth_utils.to_checksum_address, imported at line 9 *)

Rep(c, n) == [i \in 1..n |-> c]

\* keccak-256 of the sampled lowercase address texts, as hex digits
KeccakTable ==
    << [text |-> Text(Rep("0", 40)),
        digest |-> Text(<<"c","c","c","5","2","7","f","e","1","f","9","3","9","1","b","f","f","4","4","4","9","9","4","d","d","c","a","4","0","4","b","e","d","1","d","c","0","0","8","a","0","6","6","f","f","7","f","1","b","2","4","3","e","1","1","5","c","a","b","7","0","7","2","0">>)],
       [text |-> Text(<<"5","a","a","e","b","6","0","5","3","f","3","e","9","4","c","9","b","9","a","0","9","f","3","3","6","6","9","4","3","5","e","7","e","f","1","b","e","a","e","d">>),
        digest |-> Text(<<"d","3","8","5","6","5","0","c","e","8","f","d","c","6","d","b","7","e","e","3","a","0","9","1","d","3","4","8","1","4","d","b","c","4","c","e","1","8","2","1","9","f","f","a","e","5","2","1","8","2","e","f","f","f","4","0","3","4","d","7","0","7","e","5">>)],
       [text |-> Text(Rep("0", 39) \o <<"b">>),
        digest |-> Text(<<"6","4","5","e","1","a","1","a","e","1","4","8","5","f","7","5","d","0","2","0","7","9","5","a","2","6","e","e","3","f","a","d","0","3","1","5","1","0","e","7","7","9","e","8","c","5","2","4","2","a","9","d","6","8","e","0","0","0","f","7","7","b","a","9">>)],
       [text |-> Text(Rep("0", 39) \o <<"1">>),
        digest |-> Text(<<"1","e","f","5","2","2","1","f","f","1","8","b","a","b","f","9","d","4","a","7","6","e","3","1","8","7","4","6","0","0","d","e","7","2","0","3","e","b","d","a","1","d","e","9","d","8","4","5","d","b","6","a","2","c","f","8","4","1","f","c","a","d","5","3">>)],
       [text |-> Text(<<"f","b","6","9","1","6","0","9","5","c","a","1","d","f","6","0","b","b","7","9","c","e","9","2","c","e","3","e","a","7","4","c","3","7","c","5","d","3","5","9">>),
        digest |-> Text(<<"5","c","f","a","c","6","6","3","f","4","5","8","3","7","b","4","0","9","c","4","d","3","d","c","1","c","e","f","5","f","4","7","5","9","7","3","4","f","4","9","8","9","d","d","5","3","a","3","1","b","1","2","6","5","7","3","4","c","0","b","2","8","f","4">>)] >>

\* encode_hex(keccak(text=...)) without its prefix.  The digest of a sampled
\* address is the real one; any other text (none is hashed by the fields on
\* the sampled inputs) gets a fixed digest that depends on every character.
keccak(text) ==
    LET Lookup(table) ==
            IF \E k \in DOMAIN table : table[k].text = text
            THEN table[CHOOSE k \in DOMAIN table : table[k].text = text].digest
            ELSE [i \in 1..64 |->
                    HexDigit((text[((i - 1) % Len(text)) + 1] + 5 * i) % 16)]
    IN  Lookup(KeccakTable)

remove_0x_prefix(s) == IF Is0xPrefixed(s) THEN Drop(s, 2) ELSE s
add_0x_prefix(s) == IF Is0xPrefixed(s) THEN s ELSE <<48, 120>> \o s

\* eth_utils.is_hex: an optional 0x/0X prefix, then hex digits only
is_hex(s) ==
    LET AllHex(unprefixed) == \A i \in DOMAIN unprefixed : IsHexChar(unprefixed[i])
    IN  AllHex(remove_0x_prefix(s))

\* eth_utils.is_hex_address on text
is_hex_address(s) == is_hex(s) /\ Len(remove_0x_prefix(s)) = 40

\* eth_utils.to_normalized_address: hexstr_if_str(to_hex, value).lower(),
\* ValueError unless the result is a hex address
to_normalized_address(v) ==
    LET Normalized(hex_address) ==
            IF is_hex_address(hex_address) THEN Ok(PyStr(hex_address))
            ELSE Raise("ValueError", "", v)
    IN  IF v.tag = "str" /\ Len(remove_0x_prefix(v.data)) > 0 /\ ~is_hex(v.data)
        THEN Raise("ValueError", "", v)
        ELSE Normalized(IF v.tag = "str" THEN Lower(add_0x_prefix(Lower(v.data)))
                        ELSE <<48, 120>> \o Hexlify(v.data))

\* eth_utils.to_checksum_address: digit i is upper-cased when nibble i of
\* keccak(the 40 lowercase digits) is greater than 7
to_checksum_address(v) ==
    LET Checksum(digits, address_hash) ==
            Ok(PyStr(<<48, 120>> \o
                [i \in 1..40 |->
                    IF HexVal(address_hash[i]) > 7 THEN UpperChar(digits[i])
                    ELSE digits[i]]))
        Hashed(digits) == Checksum(digits, keccak(digits))
        Checked(norm_address) ==
            IF norm_address.exc # "none" THEN norm_address
            ELSE Hashed(remove_0x_prefix(norm_address.val.data))
    IN  Checked(to_normalized_address(v))

-----------------------------------------------------------------------------
(* Field options set by the constructors *)

ADDRESS_MAX_LENGTH == 42
ADDRESS_V2_MAX_LENGTH == 20
UINT256_MAX_DIGITS == 79
SHA3_MAX_LENGTH == 64
KECCAK256_LENGTH == 32

AddressFields == {"EthereumAddressField", "EthereumAddressV2Field"}
HashFields == {"Sha3HashField", "Keccak256Field"}
Fields == AddressFields \cup HashFields \cup {"Uint256Field"}

-----------------------------------------------------------------------------
(* class EthereumAddressField(models.CharField) *)

\* django CharField.to_python on the values the field is given: text and
\* None are returned as they are
CharField_to_python(v) == CASE v.tag \in {"str", "None"} -> v

EthereumAddressField_to_python(v) ==
    LET Try(value, checksummed) ==
            IF checksummed.exc = "ValueError"
            THEN Raise("ValidationError", "invalid", value)
            ELSE checksummed
        Convert(value) ==
            IF Truthy(value) THEN Try(value, to_checksum_address(value))
            ELSE Ok(value)
    IN  Convert(CharField_to_python(v))

EthereumAddressField_from_db_value(v) == EthereumAddressField_to_python(v)

\* super().get_prep_value(value) is CharField.get_prep_value, which returns
\* self.to_python(value); the result goes through to_python once more
EthereumAddressField_get_prep_value(v) ==
    LET Again(value) ==
            IF value.exc # "none" THEN value
            ELSE EthereumAddressField_to_python(value.val)
    IN  Again(EthereumAddressField_to_python(v))

-----------------------------------------------------------------------------
(* class EthereumAddressV2Field(models.BinaryField) *)

EthereumAddressV2Field_to_python(v) ==
    LET Try(checksummed) ==
            IF checksummed.exc = "ValueError"
            THEN Raise("ValidationError", "invalid", v)
            ELSE checksummed
    IN  IF v # None THEN Try(to_checksum_address(v)) ELSE Ok(None)

\* from_db_value returning the hex of the column as it is
EthereumAddressV2Field_from_db_value_hex(v) ==
    IF Truthy(v) THEN Ok(BytesHex(v)) ELSE Ok(None)

EthereumAddressV2Field_from_db_value(v) ==
    IF Truthy(v) THEN to_checksum_address(BytesHex(v)) ELSE Ok(None)

EthereumAddressV2Field_get_prep_value(v) ==
    LET Wrap(value) == IF value.exc # "none" THEN value ELSE HexBytes(value.val)
    IN  IF Truthy(v) THEN Wrap(EthereumAddressV2Field_to_python(v)) ELSE Ok(None)

-----------------------------------------------------------------------------
(* class Uint256Field(models.DecimalField) *)

\* str(int) and "{:f}".format(Decimal): "-" for a negative value, then the digits
DecimalText(v) ==
    (IF v.neg THEN <<45>> ELSE <<>>) \o [i \in DOMAIN v.data |-> 48 + v.data[i]]

\* Decimal(text), as the database driver builds it from a numeric column
ParseDecimal(s) ==
    LET neg == Len(s) > 0 /\ s[1] = 45
        digits == IF neg THEN Drop(s, 1) ELSE s
    IN  PyDecimal(neg, [i \in DOMAIN digits |-> digits[i] - 48])

\* get_db_prep_save refusing a value of exactly max_digits digits
Uint256Field_get_db_prep_save_strict(v) ==
    IF v = None THEN Ok(None)
    ELSE IF Len(v.data) >= UINT256_MAX_DIGITS
    THEN Raise("InvalidOperation", "", v)
    ELSE Ok(PyStr(DecimalText(PyDecimal(v.neg, v.data))))

\* DecimalField.get_db_prep_save with max_digits = 79 and decimal_places = 0:
\* the value is quantized in a context of 79 digits of precision, which
\* raises decimal.InvalidOperation when it has more digits, and is written
\* as decimal text
Uint256Field_get_db_prep_save(v) ==
    IF v = None THEN Ok(None)
    ELSE IF Len(v.data) > UINT256_MAX_DIGITS
    THEN Raise("InvalidOperation", "", v)
    ELSE Ok(PyStr(DecimalText(PyDecimal(v.neg, v.data))))

\* from_db_value handing back the driver's Decimal
Uint256Field_from_db_value_decimal(v) == Ok(v)

Uint256Field_from_db_value(v) ==
    IF v = None THEN Ok(v) ELSE Ok(PyInt(v.neg, v.data))

-----------------------------------------------------------------------------
(* class HexField(models.CharField), class Sha3HashField(HexField) *)

HexField_to_python(v) ==
    LET Hex(hb) == IF hb.exc # "none" THEN hb ELSE Ok(HexBytesHex(hb.val))
    IN  IF v = None THEN Ok(v) ELSE Hex(HexBytes(v))

HexField_from_db_value(v) == HexField_to_python(v)

\* get_prep_value cutting the prefix off text without decoding it
HexField_get_prep_value_undecoded(v) ==
    LET Hex(hb) ==
            IF hb.exc # "none" THEN hb
            ELSE Ok(PyStr(IF Is0xPrefixed(v.data) THEN Drop(v.data, 2) ELSE v.data))
    IN  IF v = None THEN Ok(v)
        ELSE IF v.tag = "HexBytes" THEN Ok(PyStr(Drop(HexBytesHex(v).data, 2)))
        ELSE IF IsBytes(v) THEN Ok(BytesHex(v))
        ELSE Hex(HexBytes(v))

\* get_prep_value keeping the 0x of HexBytes.hex()
HexField_get_prep_value_prefixed(v) ==
    LET Hex(hb) ==
            IF hb.exc # "none" THEN hb
            ELSE Ok(PyStr(Drop(HexBytesHex(hb.val).data, 2)))
    IN  IF v = None THEN Ok(v)
        ELSE IF v.tag = "HexBytes" THEN Ok(HexBytesHex(v))
        ELSE IF IsBytes(v) THEN Ok(BytesHex(v))
        ELSE Hex(HexBytes(v))

HexField_get_prep_value(v) ==
    LET Hex(hb) ==
            IF hb.exc # "none" THEN hb
            ELSE Ok(PyStr(Drop(HexBytesHex(hb.val).data, 2)))
    IN  IF v = None THEN Ok(v)
        ELSE IF v.tag = "HexBytes" THEN Ok(PyStr(Drop(HexBytesHex(v).data, 2)))
        ELSE IF IsBytes(v) THEN Ok(BytesHex(v))
        ELSE Hex(HexBytes(v))

\* django Field.validate on a field with null=True: a value in
\* empty_values is refused unless the field has blank=True
Field_validate(value, blank) ==
    IF ~blank /\ (value = None \/ value = PyStr(<<>>))
    THEN Raise("ValidationError", "blank", value)
    ELSE Ok(value)

\* django Field.run_validators of a CharField: nothing is run on an empty
\* value; MaxLengthValidator(max_length) refuses longer text
CharField_run_validators(value, max_length) ==
    IF value = PyStr(<<>>) THEN Ok(value)
    ELSE IF Len(value.data) > max_length
    THEN Raise("ValidationError", "max_length", value)
    ELSE Ok(value)

\* HexField.clean of Sha3HashField: value[2:] raises TypeError on None
HexField_clean(v, blank) ==
    LET Run(value, run) == IF run.exc # "none" THEN run ELSE value
        Validated(value, validated) ==
            IF validated.exc # "none" THEN validated
            ELSE IF value.val = None THEN Raise("TypeError", "", value.val)
            ELSE Run(value, CharField_run_validators(
                                PyStr(Drop(value.val.data, 2)), SHA3_MAX_LENGTH))
        Clean(value) ==
            IF value.exc # "none" THEN value
            ELSE Validated(value, Field_validate(value.val, blank))
    IN  Clean(HexField_to_python(v))

-----------------------------------------------------------------------------
(* class Keccak256Field(models.BinaryField) *)

\* The ValidationError raised inside the try block is no ValueError: it is
\* not caught by "except (ValueError, binascii.Error)"
Keccak256Field_to_bytes(v) ==
    LET Try(result) ==
            IF result.exc \in {"ValueError", "binascii.Error"}
            THEN Raise("ValidationError", "invalid", v)
            ELSE IF result.exc # "none" THEN result
            ELSE IF Len(result.val.data) # KECCAK256_LENGTH
            THEN Raise("ValidationError", "length", v)
            ELSE result
    IN  IF v = None THEN Ok(None) ELSE Try(HexBytes(v))

Keccak256Field_from_db_value(v) ==
    IF Truthy(v) THEN Ok(HexBytesHex(PyBytes(v.data))) ELSE Ok(None)

Keccak256Field_get_prep_value(v) ==
    IF Truthy(v) THEN Keccak256Field_to_bytes(v) ELSE Ok(None)

Keccak256Field_to_python(v) ==
    LET Try(value) ==
            IF value.exc \in {"ValueError", "binascii.Error"}
            THEN Raise("ValidationError", "invalid", v)
            ELSE value
    IN  IF v # None THEN Try(Keccak256Field_to_bytes(v)) ELSE Ok(None)

-----------------------------------------------------------------------------
(* validators.validate_checksumed_address, imported at line 12 *)

\* Accepts text that is a hex address written with its EIP-55 capitalisation
validate_checksumed_address(v) ==
    IF v.tag = "str" /\ is_hex_address(v.data) /\ to_checksum_address(v) = Ok(v)
    THEN Ok(v)
    ELSE Raise("ValidationError", "invalid_checksum", v)

\* django Field.clean of the address fields (null=True): to_python,
\* Field.validate, then default_validators unless the value is empty
AddressField_clean(value, blank) ==
    LET Run(run) == IF run.exc # "none" THEN run ELSE value
        Validated(validated) ==
            IF validated.exc # "none" THEN validated
            ELSE IF value.val = None \/ value.val = PyStr(<<>>) THEN value
            ELSE Run(validate_checksumed_address(value.val))
    IN  IF value.exc # "none" THEN value
        ELSE Validated(Field_validate(value.val, blank))

-----------------------------------------------------------------------------
(* The values the tests and callers hand to the fields *)

NumAddr == 3
NumHash == 2
NumNines == 3

\* The EIP-55 form of the sampled addresses: NULL_ADDRESS, the first test
\* vector of EIP-55, an address whose only letter stays lowercase,
\* SENTINEL_ADDRESS, another EIP-55 test vector
Eip55Vectors ==
    << Text(<<"0","x">> \o Rep("0", 39) \o <<"0">>),
       Text(<<"0","x","5","a","A","e","b","6","0","5","3","F","3","E","9","4","C","9","b","9","A","0","9","f","3","3","6","6","9","4","3","5","E","7","E","f","1","B","e","A","e","d">>),
       Text(<<"0","x">> \o Rep("0", 39) \o <<"b">>),
       Text(<<"0","x">> \o Rep("0", 39) \o <<"1">>),
       Text(<<"0","x","f","B","6","9","1","6","0","9","5","c","a","1","d","f","6","0","b","B","7","9","C","e","9","2","c","E","3","E","a","7","4","c","3","7","c","5","d","3","5","9">>) >>

AddrSamples == 1..NumAddr
AddrBytes(k) == Unhexlify(KeccakTable[k].text)

\* swapcase(): every letter in the other case
SwapCase(s) ==
    [i \in DOMAIN s |->
        IF s[i] \in 65..90 THEN s[i] + 32
        ELSE IF s[i] \in 97..122 THEN s[i] - 32 ELSE s[i]]

\* The 40 digits of address k in four capitalisations
AddrDigitForms(k) ==
    LET Forms(c) == {Lower(c), Upper(c), c, SwapCase(c)}
    IN  Forms(Drop(Eip55Vectors[k], 2))

\* Every text written for address k: with and without the 0x prefix
AddrTexts(k) ==
    UNION {{PyStr(d), PyStr(<<48, 120>> \o d)} : d \in AddrDigitForms(k)}

\* Values that are no address: "0x23", "", "0x", text that is no hex,
\* 19 and 21 bytes of hex
BadAddrTexts ==
    {PyStr(Text(<<"0", "x", "2", "3">>)), PyStr(<<>>), PyStr(Text(<<"0", "x">>)),
     PyStr(Text(Rep("z", 40))), PyStr(Text(<<"0", "x">> \o Rep("z", 40))),
     PyStr(Text(<<"0", "x">> \o Rep("a", 38))), PyStr(Text(Rep("a", 42)))}

BadAddrBytes == {PyBytes(<<>>), PyBytes(Rep(171, 19)), PyBytes(Rep(171, 21))}

HashSamples == 1..NumHash
HashBytes(k) == [i \in 1..KECCAK256_LENGTH |-> (37 * k + 11 * i) % 256]

\* The forms of hash k: bytes, HexBytes, hex with 0x, hex without, and
\* upper-case hex with 0X
HashForms(k) ==
    LET Forms(b, hex) ==
            {PyBytes(b), PyHexBytes(b), PyStr(<<48, 120>> \o hex), PyStr(hex),
             PyStr(<<48, 88>> \o Upper(hex))}
    IN  Forms(HashBytes(k), Hexlify(HashBytes(k)))

\* Values that are no 32-byte hash: short, odd, 63, 65 and 66 digits, no
\* hex, empty, 31 and 33 raw bytes
BadHashValues ==
    LET Bad(hex) ==
            {PyStr(Text(<<"0", "x", "1", "2">>)), PyStr(Text(<<"0", "x", "a", "b", "c">>)),
             PyStr(<<48, 120>> \o Drop(hex, 1)), PyStr(<<48, 120>> \o hex \o <<97>>),
             PyStr(<<48, 120>> \o hex \o <<97, 97>>),
             PyStr(Text(<<"0", "x", "z", "z">>)), PyStr(<<>>), PyStr(Text(<<"0", "x">>)),
             PyBytes(<<>>), PyBytes(Rep(171, 31)), PyBytes(Rep(171, 33))}
    IN  Bad(Hexlify(HashBytes(1)))

\* 2 ** 256 and the values of test_uint256_field: 2, 2 ** 260, a 77-digit
\* number, 2 ** 263
TWO_256 == <<1,1,5,7,9,2,0,8,9,2,3,7,3,1,6,1,9,5,4,2,3,5,7,0,9,8,5,0,0,8,6,8,7,9,0,7,8,5,3,2,6,9,9,8,4,6,6,5,6,4,0,5,6,4,0,3,9,4,5,7,5,8,4,0,0,7,9,1,3,1,2,9,6,3,9,9,3,6>>
TWO_256_MINUS_1 == [TWO_256 EXCEPT ![Len(TWO_256)] = 5]
TWO_260 == <<1,8,5,2,6,7,3,4,2,7,7,9,7,0,5,9,1,2,6,7,7,7,1,3,5,7,6,0,1,3,9,0,0,6,5,2,5,6,5,2,3,1,9,7,5,4,6,5,0,2,4,9,0,2,4,6,3,1,3,2,1,3,4,4,1,2,6,6,1,0,0,7,4,2,3,8,9,7,6>>
TWO_263 == <<1,4,8,2,1,3,8,7,4,2,2,3,7,6,4,7,3,0,1,4,2,1,7,0,8,6,0,8,1,1,1,2,0,5,2,2,0,5,2,1,8,5,5,8,0,3,7,2,0,1,9,9,2,1,9,7,0,5,0,5,7,0,7,5,3,0,1,2,8,8,0,5,9,3,9,1,1,8,0,8>>
TEST_77_DIGITS == <<2,5,5,7,2,7,3,5,5,4,1,6,1,5,0,4,9,9,4,1,1,3,7,3,2,6,0,9,2,6,8,2,6,9,1,1,5,8,1,0,9,8,2,4,7,7,9,6,4,9,9,8,1,2,7,0,4,2,7,0,0,4,9,1,7,3,4,1,6,7,0,0,0,6,4,8,7>>

\* Magnitudes: the test values, and 10 ** n - 1 for n around the 79 digits
Magnitudes ==
    {<<2>>, TWO_256_MINUS_1, TWO_256, TWO_260, TWO_263, TEST_77_DIGITS}
        \cup {Rep(9, UINT256_MAX_DIGITS - 2 + j) : j \in 1..NumNines}

IntValues ==
    {PyInt(FALSE, <<0>>)} \cup {PyInt(n, m) : n \in BOOLEAN, m \in Magnitudes}

Inputs(f) ==
    CASE f \in AddressFields ->
            {None} \cup UNION {AddrTexts(k) : k \in AddrSamples} \cup BadAddrTexts
                \cup (IF f = "EthereumAddressV2Field"
                      THEN {PyBytes(AddrBytes(k)) : k \in AddrSamples} \cup BadAddrBytes
                      ELSE {})
      [] f \in HashFields ->
            {None} \cup UNION {HashForms(k) : k \in HashSamples} \cup BadHashValues
      [] f = "Uint256Field" -> {None} \cup IntValues

-----------------------------------------------------------------------------
(* The field under test, its table and the outcome of the last call *)

\* The conversion the ORM applies to a value on its way to the database
Prep(f, v) ==
    CASE f = "EthereumAddressField" -> EthereumAddressField_get_prep_value(v)
      [] f = "EthereumAddressV2Field" -> EthereumAddressV2Field_get_prep_value(v)
      [] f = "Uint256Field" -> Uint256Field_get_db_prep_save(v)
      [] f = "Sha3HashField" -> HexField_get_prep_value(v)
      [] f = "Keccak256Field" -> Keccak256Field_get_prep_value(v)

FromDb(f, v) ==
    CASE f = "EthereumAddressField" -> EthereumAddressField_from_db_value(v)
      [] f = "EthereumAddressV2Field" -> EthereumAddressV2Field_from_db_value(v)
      [] f = "Uint256Field" -> Uint256Field_from_db_value(v)
      [] f = "Sha3HashField" -> HexField_from_db_value(v)
      [] f = "Keccak256Field" -> Keccak256Field_from_db_value(v)

ToPythonOf(f, v) ==
    CASE f = "EthereumAddressField" -> EthereumAddressField_to_python(v)
      [] f = "EthereumAddressV2Field" -> EthereumAddressV2Field_to_python(v)
      [] f = "Sha3HashField" -> HexField_to_python(v)
      [] f = "Keccak256Field" -> Keccak256Field_to_python(v)

CleanOf(f, v, blank) ==
    CASE f \in AddressFields -> AddressField_clean(ToPythonOf(f, v), blank)
      [] f = "Sha3HashField" -> HexField_clean(v, blank)

\* What the column holds: text, decimal text, raw bytes or NULL
DbValue(v) == IF IsBytes(v) THEN PyBytes(v.data) ELSE v

\* What the driver hands to from_db_value: a memoryview of a binary
\* column, a Decimal of a numeric column, the text of a char column
DbFetch(f, col) ==
    IF col = None THEN None
    ELSE IF f \in {"EthereumAddressV2Field", "Keccak256Field"} THEN PyMemoryview(col.data)
    ELSE IF f = "Uint256Field" THEN ParseDecimal(col.data)
    ELSE col

RECURSIVE NatDigits(_)
NatDigits(n) == IF n < 10 THEN <<n>> ELSE NatDigits(n \div 10) \o <<n % 10>>

Call(op, input, out, col) == [op |-> op, input |-> input, out |-> out, col |-> col]

Init ==
    /\ field \in Fields
    /\ db = <<>>
    /\ last = Call("init", None, Ok(None), None)

\* Model.objects.create(value=x) on the empty table: the row is written
\* unless the conversion raises
Create(x) ==
    /\ db = <<>>
    /\ last' = Call("create", x, Prep(field, x), None)
    /\ db' = IF last'.out.exc = "none"
             THEN Append(db, [src |-> x, inst |-> x, fresh |-> FALSE,
                              stored |-> DbValue(last'.out.val)])
             ELSE db
    /\ UNCHANGED field

\* instance.refresh_from_db(): the attribute becomes from_db_value(column)
Refresh(i) ==
    /\ last' = Call("refresh", db[i].src,
                    FromDb(field, DbFetch(field, db[i].stored)), db[i].stored)
    /\ db' = IF last'.out.exc = "none"
             THEN [db EXCEPT ![i].inst = last'.out.val, ![i].fresh = TRUE]
             ELSE db
    /\ UNCHANGED field

\* instance.save() of a refreshed instance: the column is written again
Save(i) ==
    /\ db[i].fresh
    /\ last' = Call("save", db[i].inst, Prep(field, db[i].inst), db[i].stored)
    /\ db' = IF last'.out.exc = "none"
             THEN [db EXCEPT ![i].stored = DbValue(last'.out.val)]
             ELSE db
    /\ UNCHANGED field

\* Model.objects.filter(value=x).count(): the rows whose column equals the
\* converted x
Filter(x) ==
    LET Count(out) ==
            IF out.exc # "none" THEN out
            ELSE Ok(PyInt(FALSE, NatDigits(Cardinality(
                    {i \in DOMAIN db : db[i].stored = DbValue(out.val)}))))
    IN  /\ db # <<>>
        /\ last' = Call("filter", x, Count(Prep(field, x)), None)
        /\ UNCHANGED <<field, db>>

\* field.to_python(x); the conversions that do not touch the table are
\* called before a row is written
ToPython(x) ==
    /\ db = <<>>
    /\ field # "Uint256Field"
    /\ last' = Call("to_python", x, ToPythonOf(field, x), None)
    /\ UNCHANGED <<field, db>>

\* field.clean(x, instance) on a nullable field, with blank=True or not
Clean(x, blank) ==
    /\ db = <<>>
    /\ field \in AddressFields \cup {"Sha3HashField"}
    /\ last' = Call(IF blank THEN "clean_blank" ELSE "clean", x,
                    CleanOf(field, x, blank), None)
    /\ UNCHANGED <<field, db>>

\* validate_checksumed_address(x) on its own
Validate(x) ==
    /\ db = <<>>
    /\ field \in AddressFields
    /\ x # None
    /\ last' = Call("validate", x, validate_checksumed_address(x), None)
    /\ UNCHANGED <<field, db>>

Next ==
    \/ \E x \in Inputs(field) : Create(x)
    \/ \E i \in DOMAIN db : Refresh(i)
    \/ \E i \in DOMAIN db : Save(i)
    \/ \E x \in Inputs(field) : Filter(x)
    \/ \E x \in Inputs(field) : ToPython(x)
    \/ \E x \in Inputs(field), blank \in BOOLEAN : Clean(x, blank)
    \/ \E x \in Inputs(field) : Validate(x)

Spec == Init /\ [][Next]_vars

-----------------------------------------------------------------------------
(* Properties *)

Succeeded == last.out.exc = "none"
Wrote == last.op = "create"
ReadBack == last.op = "refresh"
Cleaned == last.op \in {"clean", "clean_blank"}
One == Ok(PyInt(FALSE, <<1>>))

\* The hex digits of a text, without its prefix
DigitsOf(x) == IF Is0xPrefixed(x.data) THEN Drop(x.data, 2) ELSE x.data
IsHexText(x) == x.tag = "str" /\ \A i \in DOMAIN DigitsOf(x) : IsHexChar(DigitsOf(x)[i])

\* a > b for magnitudes written as decimal digits without leading zeros
RECURSIVE LexGreater(_, _)
LexGreater(a, b) ==
    IF a = <<>> THEN FALSE
    ELSE IF Head(a) # Head(b) THEN Head(a) > Head(b)
    ELSE LexGreater(Tail(a), Tail(b))
GreaterDigits(a, b) == Len(a) > Len(b) \/ (Len(a) = Len(b) /\ LexGreater(a, b))

\* C1: a row of an address field written from any text of a sampled
\* address (any capitalisation, with or without 0x) is written without
\* error and reads back as the one EIP-55 text of that address, 42
\* characters long, whatever the capitalisation written.
C1_AddressRoundTrip ==
    \A k \in AddrSamples :
        (field \in AddressFields /\ last.input \in AddrTexts(k)) =>
            /\ Wrote => Succeeded
            /\ ReadBack =>
                /\ last.out = Ok(PyStr(Eip55Vectors[k]))
                /\ Len(last.out.val.data) = ADDRESS_MAX_LENGTH

C1_Witness ==
    /\ field = "EthereumAddressV2Field"
    /\ ReadBack
    /\ last.input = PyStr(Upper(Drop(Eip55Vectors[2], 2)))
    /\ last.col = PyBytes(AddrBytes(2))
    /\ Len(last.col.data) = ADDRESS_V2_MAX_LENGTH
    /\ last.out = Ok(PyStr(Eip55Vectors[2]))

\* C2: validation of an address field is case-sensitive: cleaning (to_python,
\* then validate_checksumed_address) the EIP-55 text of an address
\* succeeds, and cleaning a text of the same address whose digits are
\* capitalised in any other way is rejected.
C2_CaseSensitiveValidation ==
    \A k \in AddrSamples :
        (field \in AddressFields /\ Cleaned /\ last.input \in AddrTexts(k)) =>
            /\ last.input = PyStr(Eip55Vectors[k]) => Succeeded
            /\ DigitsOf(last.input) # Drop(Eip55Vectors[k], 2) => ~Succeeded

\* C3: to_python and get_prep_value of the address fields raise
\* ValidationError "invalid", carrying the value, for every value other
\* than None that is no hex text of 20 bytes, the empty text included.
C3_InvalidAddressRejected ==
    (/\ field \in AddressFields
     /\ last.op \in {"to_python", "create"}
     /\ last.input \in BadAddrTexts \cup BadAddrBytes)
        => last.out = Raise("ValidationError", "invalid", last.input)

\* C4: every form of a 32-byte hash (bytes, HexBytes, hex with 0x or 0X,
\* hex without prefix) is stored as the same column value, reads back as
\* the lowercase 0x-prefixed text of 64 digits, and a lookup by any form
\* finds the row written from any other form.
C4_HashFormsAgree ==
    \A k \in HashSamples :
        (field \in HashFields /\ last.input \in HashForms(k)) =>
            /\ Wrote =>
                /\ Succeeded
                /\ db[1].stored = IF field = "Sha3HashField"
                                  THEN PyStr(Hexlify(HashBytes(k)))
                                  ELSE PyBytes(HashBytes(k))
            /\ ReadBack =>
                /\ last.out = Ok(PyStr(<<48, 120>> \o Hexlify(HashBytes(k))))
                /\ Len(last.out.val.data) = 2 + 2 * KECCAK256_LENGTH
            /\ (last.op = "filter" /\ db[1].src \in HashForms(k)) => last.out = One

C4_Witness ==
    /\ field = "Sha3HashField"
    /\ last.op = "filter"
    /\ db[1].src = PyBytes(HashBytes(1))
    /\ last.input = PyStr(<<48, 88>> \o Upper(Hexlify(HashBytes(1))))
    /\ last.out = One

\* C5: to_python and get_prep_value of Keccak256Field raise ValidationError
\* "length" for every value other than None that is hex text or bytes
\* but not of 32 bytes (64 digits), the empty ones included, and
\* "invalid" only for text that is no hex.
C5_WrongLengthRejected ==
    (field = "Keccak256Field" /\ last.op \in {"to_python", "create"}
        /\ last.input # None) =>
        /\ (IsBytes(last.input) /\ Len(last.input.data) # KECCAK256_LENGTH)
                => (last.out.exc = "ValidationError" /\ last.out.code = "length")
        /\ (IsHexText(last.input) /\ Len(DigitsOf(last.input)) # 2 * KECCAK256_LENGTH)
                => (last.out.exc = "ValidationError" /\ last.out.code = "length")
        /\ (last.out.exc = "ValidationError" /\ last.out.code = "invalid")
                => (last.input.tag = "str" /\ ~IsHexText(last.input))

\* C6: writing an integer below 0 or above 2 ** 256 - 1 to a Uint256Field
\* fails.
C6_OutOfRangeRejected ==
    (/\ field = "Uint256Field" /\ Wrote /\ last.input # None
     /\ (last.input.neg \/ GreaterDigits(last.input.data, TWO_256_MINUS_1)))
        => ~Succeeded

\* C6 as amended: writing an integer fails, with decimal.InvalidOperation,
\* exactly when its magnitude has more than 79 digits; any other integer,
\* in or out of the uint256 range, is stored as its exact decimal text.
C6_MoreThan79DigitsRejected ==
    (field = "Uint256Field" /\ Wrote /\ last.input # None) =>
        IF Len(last.input.data) > UINT256_MAX_DIGITS
        THEN last.out.exc = "InvalidOperation" /\ db = <<>>
        ELSE /\ Succeeded
             /\ db[1].stored = PyStr(DecimalText(last.input))

C6_Witness ==
    /\ field = "Uint256Field" /\ Wrote
    /\ last.input = PyInt(FALSE, TWO_263)
    /\ last.out.exc = "InvalidOperation"

\* C7: an integer of at most 79 digits is accepted by Uint256Field and
\* reads back as the same integer, of type int; 2 ** 263 is not stored.
C7_UintRoundTrip ==
    (field = "Uint256Field" /\ last.input # None) =>
        /\ (Wrote /\ Len(last.input.data) <= UINT256_MAX_DIGITS) => Succeeded
        /\ (Wrote /\ last.input = PyInt(FALSE, TWO_263)) => (~Succeeded /\ db = <<>>)
        /\ ReadBack => last.out = Ok(last.input)

C7_Witness ==
    /\ field = "Uint256Field" /\ ReadBack
    /\ last.input = PyInt(TRUE, <<2>>)
    /\ last.col = PyStr(Text(<<"-", "2">>))
    /\ last.out = Ok(PyInt(TRUE, <<2>>))

\* C8: None goes through to_python, get_prep_value and from_db_value of
\* the address, hex and keccak fields, through from_db_value of
\* Uint256Field and through HexField.clean as None, without an exception.
C8_NonePassesThrough ==
    (/\ last.input = None
     /\ \/ field # "Uint256Field" /\ last.op \in {"to_python", "create", "refresh"}
        \/ field = "Uint256Field" /\ ReadBack
        \/ field = "Sha3HashField" /\ Cleaned)
        => last.out = Ok(None)

\* C9: for a HexField, get_prep_value of bytes, HexBytes or hex text (with
\* 0x, 0X or no prefix) is lowercase hex text without prefix; to_python and
\* from_db_value return text that starts with 0x; reading a column back
\* gives "0x" followed by the column, and writing that value again gives
\* the same column.
C9_HexPrefixHandling ==
    (/\ field = "Sha3HashField" /\ last.input # None
     /\ (IsBytes(last.input) \/ IsHexText(last.input))) =>
        /\ Wrote =>
            /\ Succeeded
            /\ last.out.val.tag = "str"
            /\ \A i \in DOMAIN last.out.val.data :
                    IsDigit(last.out.val.data[i]) \/ IsLowerHexLetter(last.out.val.data[i])
            /\ ~Is0xPrefixed(last.out.val.data)
        /\ last.op \in {"to_python", "refresh"} =>
            /\ Succeeded
            /\ last.out.val.tag = "str"
            /\ SubSeq(last.out.val.data, 1, 2) = <<48, 120>>
        /\ ReadBack => last.out.val.data = <<48, 120>> \o last.col.data
        /\ last.op = "save" => (Succeeded /\ last.out.val = last.col /\ db[1].stored = last.col)

C9_Witness ==
    /\ field = "Sha3HashField"
    /\ last.op = "save"
    /\ db[1].src = PyStr(<<48, 88>> \o Upper(Hexlify(HashBytes(1))))
    /\ last.input = PyStr(<<48, 120>> \o Hexlify(HashBytes(1)))
    /\ last.out = Ok(PyStr(Hexlify(HashBytes(1))))

\* C10: HexField.clean of Sha3HashField rejects every text with an odd
\* number of hex digits and every text that is not of 32 bytes (64 digits).
C10_CleanRejectsWrongLength ==
    (/\ field = "Sha3HashField" /\ Cleaned
     /\ last.input.tag = "str"
     /\ Len(DigitsOf(last.input)) # SHA3_MAX_LENGTH)
        => ~Succeeded

=============================================================================
